---- MODULE Spec2Model ----
(***************************************************************************)
(* The JSON RPC server of pgsqltoolsservice/server.py: the frame codec      *)
(* (read_headers, read_content, handle_output), the dispatch table, the    *)
(* lifecycle flags and the server loop handle_input.                       *)
(*                                                                         *)
(* Text is a sequence of one-character strings.  The streams are Python    *)
(* text streams (sys.stdin, sys.stdout): len() and read(n) count           *)
(* characters, not bytes.                                                  *)
(***************************************************************************)
EXTENDS Integers, Sequences, FiniteSets, TLC

(***************************************************************************)
(* Bounds of the model.                                                    *)
(***************************************************************************)
\* frames the client sends in one run
MaxFrames == 3
\* background workers a run may start
MaxWorkers == 1
\* longest body string of the codec specification
MaxLen == 2
\* thread handles of the registry specification
MaxHandles == 3
\* longest header line of the header specification
MaxLine == 7

(***************************************************************************)
(* Text literals.                                                          *)
(***************************************************************************)
S_ContentLength == <<"C","o","n","t","e","n","t","-","L","e","n","g","t","h">>
S_Sep == <<":"," ">>
S_CRLF2 == <<"\r","\n","\r","\n">>
S_LF2 == <<"\n","\n">>
S_Head == <<"{","\"","j","s","o","n","r","p","c","\"",":","\"","2",".","0","\"">>
S_Id == <<",","\"","i","d","\"",":">>
S_Method == <<",","\"","m","e","t","h","o","d","\"",":","\"">>
S_Quote == <<"\"">>
S_Close == <<"}">>
S_Params == <<",","\"","p","a","r","a","m","s","\"",":">>
S_Result == <<",","\"","r","e","s","u","l","t","\"",":">>
S_Error == <<",","\"","e","r","r","o","r","\"",":">>
S_null == <<"n","u","l","l">>
S_initialize == <<"i","n","i","t","i","a","l","i","z","e">>
S_connect == <<"c","o","n","n","e","c","t","i","o","n","/","c","o","n","n","e","c","t">>
S_disconnect == <<"c","o","n","n","e","c","t","i","o","n","/","d","i","s","c","o","n","n","e","c","t">>
S_shutdown == <<"s","h","u","t","d","o","w","n">>
S_exit == <<"e","x","i","t">>
S_echo == <<"e","c","h","o">>
S_version == <<"v","e","r","s","i","o","n">>
S_capabilities == <<"c","a","p","a","b","i","l","i","t","i","e","s","/","l","i","s","t">>
S_wait == <<"w","a","i","t">>
S_foo == <<"f","o","o">>
S_ArgParams == <<"{","\"","a","r","g","\"",":","\"","h","i","\"","}">>
S_NumParams == <<"{","\"","a","r","g","\"",":","5","}">>
S_HostParams == <<"{","\"","h","o","s","t","N","a","m","e","\"",":","\"","T","\"",",","\"","h","o","s","t","V","e","r","s","i","o","n","\"",":","\"","1","\"","}">>
S_PidParams == <<"{","\"","p","r","o","c","e","s","s","I","d","\"",":","1","}">>
S_hi == <<"h","i">>
S_InitializeResult == <<"{","\"","c","a","p","a","b","i","l","i","t","i","e","s","\"",":","{","\"","t","e","x","t","D","o","c","u","m","e","n","t","S","y","n","c","\"",":","2","}","}">>
S_CapabilitiesResult == <<"{","\"","c","a","p","a","b","i","l","i","t","i","e","s","\"",":","{","\"","p","r","o","v","i","d","e","r","N","a","m","e","\"",":","\"","P","G","S","Q","L","\"","}","}">>
S_VersionResult == <<"\"","0","\"">>
S_true == <<"t","r","u","e">>
S_ParseError == <<"{","\"","c","o","d","e","\"",":","-","3","2","7","0","0",",","\"","m","e","s","s","a","g","e","\"",":","\"","P","a","r","s","e"," ","e","r","r","o","r","\"","}">>
S_MethodNotFound == <<"{","\"","c","o","d","e","\"",":","-","3","2","6","0","1",",","\"","m","e","s","s","a","g","e","\"",":","\"","M","e","t","h","o","d"," ","n","o","t"," ","f","o","u","n","d","\"","}">>
S_InvalidParams == <<"{","\"","c","o","d","e","\"",":","-","3","2","6","0","2",",","\"","m","e","s","s","a","g","e","\"",":","\"","I","n","v","a","l","i","d"," ","p","a","r","a","m","s","\"","}">>
S_ServerError == <<"{","\"","c","o","d","e","\"",":","-","3","2","0","0","0",",","\"","m","e","s","s","a","g","e","\"",":","\"","S","e","r","v","e","r"," ","e","r","r","o","r","\"","}">>
S_ContentType == <<"C","o","n","t","e","n","t","-","T","y","p","e",":"," ","j","s","o","n">>
S_BadLength == <<"C","o","n","t","e","n","t","-","L","e","n","g","t","h",":"," ","a","b","c">>
S_NoSeparator == <<"C","o","n","t","e","n","t","-","L","e","n","g","t","h",":","5">>
S_CRLF == <<"\r","\n">>
S_Garbage == <<"{","]">>
S_Open == <<"[">>
S_Comma == <<",">>
S_End == <<"]">>
S_EventHead == <<"{","\"","j","s","o","n","r","p","c","\"",":","\"","2",".","0","\"",",","\"","m","e","t","h","o","d","\"",":","\"">>
S_EventParams == <<"\"",",","\"","p","a","r","a","m","s","\"",":">>
S_EventName == <<"c","o","n","n","e","c","t","i","o","n","/","c","o","m","p","l","e","t","e">>

Digits == <<"0","1","2","3","4","5","6","7","8","9">>

Whitespace == {" ", "\t", "\n", "\r", "\f"}

\* UTF-8 width of a character; "U+00E9" (e with acute) is the one non-ASCII character
ByteWidth(c) == IF c = "U+00E9" THEN 2 ELSE 1

\* the bytes of a text: its characters counted by width
ByteLen(s) ==
    LET n(w) == Cardinality({i \in DOMAIN s : ByteWidth(s[i]) = w})
    IN  n(1) + 2 * n(2)

(***************************************************************************)
(* Python string operations used by the codec.                             *)
(***************************************************************************)
\* str(n) / '{}'.format(n) of a non-negative integer
RECURSIVE DecimalStr(_)
DecimalStr(n) ==
    IF n < 10 THEN <<Digits[n + 1]>>
    ELSE DecimalStr(n \div 10) \o <<Digits[(n % 10) + 1]>>

DigitValue(c) == CHOOSE d \in 0..9 : Digits[d + 1] = c

IsDigit(c) == \E d \in 1..10 : Digits[d] = c

RECURSIVE DigitsValue(_, _)
DigitsValue(s, acc) ==
    IF s = <<>> THEN acc
    ELSE DigitsValue(Tail(s), acc * 10 + DigitValue(Head(s)))

RECURSIVE LStrip(_)
LStrip(s) == IF s # <<>> /\ Head(s) \in Whitespace THEN LStrip(Tail(s)) ELSE s

RECURSIVE RStrip(_)
RStrip(s) ==
    IF s # <<>> /\ s[Len(s)] \in Whitespace
    THEN RStrip(SubSeq(s, 1, Len(s) - 1))
    ELSE s

\* str.strip()
Strip(s) == RStrip(LStrip(s))

StartsWith(s, p) == Len(s) >= Len(p) /\ SubSeq(s, 1, Len(p)) = p

\* str.split(sep): every occurrence of sep, left to right, separates two parts
RECURSIVE SplitFrom(_, _, _)
SplitFrom(s, sep, cur) ==
    IF s = <<>> THEN <<cur>>
    ELSE IF StartsWith(s, sep)
         THEN <<cur>> \o SplitFrom(SubSeq(s, Len(sep) + 1, Len(s)), sep, <<>>)
         ELSE SplitFrom(Tail(s), sep, Append(cur, Head(s)))

Split(s, sep) == SplitFrom(s, sep, <<>>)

\* int(s): surrounding whitespace and one sign are accepted; ok is FALSE where
\* int raises ValueError
ParseInt(s) ==
    LET t == Strip(s)
        signed == t # <<>> /\ Head(t) \in {"+", "-"}
        d == IF signed THEN Tail(t) ELSE t
    IN  IF d = <<>> \/ \E i \in 1..Len(d) : ~IsDigit(d[i])
        THEN [ok |-> FALSE, value |-> 0]
        ELSE IF signed /\ Head(t) = "-"
        THEN [ok |-> TRUE, value |-> 0 - DigitsValue(d, 0)]
        ELSE [ok |-> TRUE, value |-> DigitsValue(d, 0)]

\* position of the first line feed of s, 0 when it has none
FirstLF(s) ==
    IF \E i \in 1..Len(s) : s[i] = "\n"
    THEN CHOOSE i \in 1..Len(s) : s[i] = "\n" /\ \A j \in 1..(i - 1) : s[j] # "\n"
    ELSE 0

(***************************************************************************)
(* The frame codec.                                                        *)
(***************************************************************************)
Platforms == {"win32", "linux"}

\* the blank-line terminator handle_output picks from sys.platform
newlines(plat) == IF plat = "win32" THEN S_LF2 ELSE S_CRLF2

\* the string handle_output writes for output_string
full_output(output_string, plat) ==
    S_ContentLength \o S_Sep \o DecimalStr(Len(output_string)) \o newlines(plat)
        \o output_string

\* a Python dict as a function; d[k] = v
EmptyDict == [k \in {} |-> <<>>]

DictSet(d, k, v) == [x \in (DOMAIN d) \cup {k} |-> IF x = k THEN v ELSE d[x]]

\* input_stream.readline() on the unread text: the line and what is left.  A
\* read that finds no line feed returns the rest at end of stream and waits
\* ("block") on a stream that is still open.
readline(stream, eof) ==
    LET i == FirstLF(stream)
    IN  IF i > 0
        THEN [status |-> "ok", line |-> SubSeq(stream, 1, i),
              rest |-> SubSeq(stream, i + 1, Len(stream))]
        ELSE IF eof THEN [status |-> "ok", line |-> stream, rest |-> <<>>]
        ELSE [status |-> "block", line |-> <<>>, rest |-> stream]

\* which part of line.split(': ') read_headers stores as the value
HeaderValue(parts) == parts[2]

\* the loop of read_headers, from the unread text and the dict built so far
RECURSIVE read_headers_loop(_, _, _)
read_headers_loop(stream, eof, hdrs) ==
    LET r == readline(stream, eof)
        line == Strip(r.line)
        parts == Split(line, S_Sep)
    IN  IF r.status = "block"
        THEN [status |-> "block", headers |-> hdrs, rest |-> stream]
        ELSE IF line = <<>>
        THEN [status |-> "ok", headers |-> hdrs, rest |-> r.rest]
        ELSE IF Len(parts) < 2
        THEN [status |-> "IndexError", headers |-> hdrs, rest |-> r.rest]
        ELSE read_headers_loop(r.rest, eof, DictSet(hdrs, parts[1], HeaderValue(parts)))

read_headers(stream, eof) == read_headers_loop(stream, eof, EmptyDict)

\* input_stream.read(length): length characters, fewer at end of stream, all
\* of it for a negative length; a short open stream makes the read wait
read_content(length, stream, eof) ==
    IF length >= 0 /\ Len(stream) >= length
    THEN [status |-> "ok", content |-> SubSeq(stream, 1, length),
          rest |-> SubSeq(stream, length + 1, Len(stream))]
    ELSE IF eof THEN [status |-> "ok", content |-> stream, rest |-> <<>>]
    ELSE [status |-> "block", content |-> <<>>, rest |-> stream]

(***************************************************************************)
(* JSON RPC messages.  A request is [method, id, params]; id 0 stands for  *)
(* a request without id (a notification).  The bodies are compact JSON.    *)
(***************************************************************************)
DomainMethods ==
    {"connection/connect", "connection/disconnect", "shutdown", "exit", "echo",
     "version", "capabilities/list", "wait"}

MethodNames == {"initialize"} \cup DomainMethods \cup {"foo"}

MethodText(m) ==
    CASE m = "initialize" -> S_initialize
      [] m = "connection/connect" -> S_connect
      [] m = "connection/disconnect" -> S_disconnect
      [] m = "shutdown" -> S_shutdown
      [] m = "exit" -> S_exit
      [] m = "echo" -> S_echo
      [] m = "version" -> S_version
      [] m = "capabilities/list" -> S_capabilities
      [] m = "wait" -> S_wait
      [] OTHER -> S_foo

\* "none": no params member; "arg": {"arg":"hi"}; "num": {"arg":5};
\* "host": {"hostName":"T","hostVersion":"1"}; "pid": {"processId":1}
ParamKinds == {"none", "arg", "num", "host", "pid"}

ParamsText(p) ==
    CASE p = "arg" -> S_Params \o S_ArgParams
      [] p = "num" -> S_Params \o S_NumParams
      [] p = "host" -> S_Params \o S_HostParams
      [] p = "pid" -> S_Params \o S_PidParams
      [] OTHER -> <<>>

RequestText(r) ==
    S_Head \o (IF r.id = 0 THEN <<>> ELSE S_Id \o DecimalStr(r.id))
        \o S_Method \o MethodText(r.method) \o S_Quote \o ParamsText(r.params)
        \o S_Close

\* s without its first n characters
Drop(s, n) == SubSeq(s, n + 1, Len(s))

\* the length of the longest prefix of s made of digits
RECURSIVE DigitRun(_)
DigitRun(s) == IF s # <<>> /\ IsDigit(Head(s)) THEN 1 + DigitRun(Tail(s)) ELSE 0

\* json.loads and JSONRPCRequest.from_data on a body: the body read member
\* by member; ok is FALSE for a text that is no request
ParseRequest(body) ==
    LET afterHead == Drop(body, Len(S_Head))
        hasId == StartsWith(afterHead, S_Id)
        idText == IF hasId THEN Drop(afterHead, Len(S_Id)) ELSE afterHead
        n == DigitRun(idText)
        afterId == Drop(idText, n)
        nameText == Drop(afterId, Len(S_Method))
        names == {m \in MethodNames : StartsWith(nameText, MethodText(m) \o S_Quote)}
        kinds(m) == {p \in ParamKinds :
                       Drop(nameText, Len(MethodText(m)) + 1) = ParamsText(p) \o S_Close}
        found == {m \in names : kinds(m) # {}}
    IN  IF /\ StartsWith(body, S_Head)
           /\ hasId => n > 0
           /\ StartsWith(afterId, S_Method)
           /\ found # {}
        THEN LET m == CHOOSE x \in found : TRUE
             IN  [ok |-> TRUE, method |-> m,
                  id |-> IF hasId THEN DigitsValue(SubSeq(idText, 1, n), 0) ELSE 0,
                  params |-> CHOOSE p \in kinds(m) : TRUE]
        ELSE [ok |-> FALSE, method |-> "", id |-> 0, params |-> "none"]

\* a batch of two requests as a client writes it
BatchText(r1, r2) == S_Open \o RequestText(r1) \o S_Comma \o RequestText(r2) \o S_End

\* where the comma between the two requests of a batch is, 0 for a body
\* that is no such batch
BatchComma(body) ==
    IF Len(body) > 2 /\ Head(body) = "[" /\ body[Len(body)] = "]"
    THEN LET at == {i \in 3..(Len(body) - 2) :
                     /\ body[i] = "," /\ body[i - 1] = "}" /\ body[i + 1] = "{"
                     /\ ParseRequest(SubSeq(body, i + 1, Len(body) - 1)).ok
                     /\ ParseRequest(SubSeq(body, 2, i - 1)).ok}
         IN  IF at = {} THEN 0 ELSE CHOOSE i \in at : TRUE
    ELSE 0

IsBatch(body) == BatchComma(body) > 0

\* JSONRPCRequest.from_data: the requests of a body, in their order
Requests(body) ==
    LET i == BatchComma(body)
    IN  IF i > 0
        THEN <<ParseRequest(SubSeq(body, 2, i - 1)),
               ParseRequest(SubSeq(body, i + 1, Len(body) - 1))>>
        ELSE <<ParseRequest(body)>>

IsRequest(body) == Requests(body)[1].ok

\* a response object: the id of its request (0: null) and a result or an error
Response(id, kind, payload) == [id |-> id, kind |-> kind, payload |-> payload]

\* no response
None == [id |-> 0, kind |-> "none", payload |-> "none"]

PayloadText(p) ==
    CASE p = "InitializeResult" -> S_InitializeResult
      [] p = "CapabilitiesResult" -> S_CapabilitiesResult
      [] p = "0" -> S_VersionResult
      [] p = "true" -> S_true
      [] p = "ParseError" -> S_ParseError
      [] p = "MethodNotFound" -> S_MethodNotFound
      [] p = "InvalidParams" -> S_InvalidParams
      [] p = "ServerError" -> S_ServerError
      [] OTHER -> S_null

\* response.json
ResponseJson(resp) ==
    S_Head \o S_Id \o (IF resp.id = 0 THEN S_null ELSE DecimalStr(resp.id))
        \o (IF resp.kind = "error" THEN S_Error ELSE S_Result)
        \o PayloadText(resp.payload) \o S_Close

\* the response of a batch, whose members are in the loop's responses
BatchResponse == [id |-> 0, kind |-> "batch", payload |-> "batch"]

RECURSIVE JoinJson(_)
JoinJson(rs) ==
    IF Len(rs) = 1 THEN ResponseJson(rs[1])
    ELSE ResponseJson(rs[1]) \o S_Comma \o JoinJson(Tail(rs))

\* JSONRPC20BatchResponse.json
BatchJson(rs) == S_Open \o JoinJson(rs) \o S_End

\* a frame as an LSP client writes it
ClientFrame(body) ==
    S_ContentLength \o S_Sep \o DecimalStr(ByteLen(body)) \o S_CRLF2 \o body

(***************************************************************************)
(* The state.                                                              *)
(***************************************************************************)
VARIABLES
    is_shutdown,    \* Server.is_shutdown
    should_exit,    \* Server.should_exit
    threads,        \* Server.threads
    dispatcher,     \* jsonrpc.dispatcher: method name -> bound callable
    input,          \* unread text of input_stream
    closed,         \* the client has closed input_stream
    output,         \* write calls on output_stream the client has not read yet
    platform,       \* sys.platform
    pc,             \* position of the loop thread in handle_input
    headers,        \* local of handle_input
    somestring,     \* local of handle_input
    requests,       \* the requests the JSON RPC layer finds in somestring
    response,       \* local of handle_input
    exit_code,      \* <<argument of sys.exit>>, empty before
    error,          \* exception that ended handle_input, "none" before
    worker,         \* state of each background worker
    wait_iter,      \* the iteration of a wait call over Server.threads, stepwise
    frameno,        \* frames the loop has read
    calls,          \* the lifecycle handlers called so far, each listed twice at most
    owed,           \* frame whose response is produced and not written, 0: none
    todo,           \* which request of the frame the JSON RPC layer is at
    responses,      \* responses the JSON RPC layer has produced for the frame
    body            \* the string of a codec round trip

vars ==
    <<is_shutdown, should_exit, threads, dispatcher, input, closed, output,
      platform, pc, headers, somestring, requests, response, exit_code, error, worker,
      wait_iter, frameno, calls, owed, todo, responses, body>>

serverVars == <<is_shutdown, should_exit, threads, dispatcher>>

clientVars == <<input, closed, platform, body>>

Workers == 1..MaxWorkers

\* Server.__init__, and the server loop about to start
\* no iteration over Server.threads is open
NoIter == [at_call |-> {}, used |-> 0, left |-> {}, thread |-> 0]

Init ==
    /\ is_shutdown = FALSE
    /\ should_exit = FALSE
    /\ threads = {}
    /\ dispatcher = [m \in {"initialize"} |-> "Server.initialize"]
    /\ input = <<>>
    /\ closed = FALSE
    /\ output = <<>>
    /\ platform \in Platforms
    /\ pc = "read_headers"
    /\ headers = EmptyDict
    /\ somestring = <<>>
    /\ requests = Requests(<<>>)
    /\ response = None
    /\ exit_code = <<>>
    /\ error = "none"
    /\ worker = [w \in Workers |-> "unstarted"]
    /\ wait_iter = NoIter
    /\ frameno = 0
    /\ calls = <<>>
    /\ owed = 0
    /\ todo = 1
    /\ responses = <<>>
    /\ body = <<>>

\* the workers whose thread is running
alive == {w \in Workers : worker[w] \in {"running", "reported"}}

Running == pc \notin {"exited", "crashed"}

(***************************************************************************)
(* The client at the other end of the pipes.                               *)
(***************************************************************************)
\* the params a client tries with each method
ParamsTried(m) ==
    CASE m = "initialize" -> {"none", "pid"}
      [] m = "echo" -> {"none", "arg", "num"}
      [] m = "capabilities/list" -> {"none", "host"}
      [] m = "shutdown" -> {"none", "arg"}
      [] OTHER -> {"none"}

\* The client works in turns: it reads what the server has written, then
\* writes one whole frame while the loop waits for input.  A request with an
\* id is numbered by its frame.
ClientTurn == Running /\ pc = "read_headers" /\ input = <<>> /\ ~closed

ClientSend ==
    /\ ClientTurn /\ frameno < MaxFrames
    /\ \E m \in MethodNames, withId \in BOOLEAN :
         \E p \in ParamsTried(m) :
           LET r == [method |-> m, id |-> IF withId THEN frameno + 1 ELSE 0,
                     params |-> p]
           IN  input' = ClientFrame(RequestText(r))
    /\ output' = <<>>
    /\ UNCHANGED <<serverVars, closed, platform, body, pc, headers, somestring, requests,
                   response, exit_code, error, worker, wait_iter, frameno, calls, owed, todo, responses>>

\* a request a client puts in a batch
BatchMember(m, i) ==
    [method |-> m, id |-> i, params |-> IF m = "echo" THEN "arg" ELSE "none"]

BatchMethods == {"shutdown", "exit", "echo", "version", "foo"}

\* the client writes a batch of two requests as one frame, each a request
\* with an id or a notification
ClientSendBatch ==
    /\ ClientTurn /\ frameno < MaxFrames
    /\ \E m1, m2 \in BatchMethods :
         \E ids \in {0, frameno + 1} \X {0, frameno + 1} :
           input' = ClientFrame(BatchText(BatchMember(m1, ids[1]),
                                          BatchMember(m2, ids[2])))
    /\ output' = <<>>
    /\ UNCHANGED <<serverVars, closed, platform, body, pc, headers, somestring, requests,
                   response, exit_code, error, worker, wait_iter, frameno, calls, owed, todo,
                   responses>>

\* The one way the client runs ahead of the server: while the loop is busy
\* with a frame, the client writes a version request as the next frame.
ClientSendAhead ==
    /\ Running /\ pc \in {"handle", "check_exit"} /\ input = <<>> /\ ~closed
    /\ frameno < MaxFrames
    /\ input' = ClientFrame(RequestText([method |-> "version", id |-> frameno + 1,
                                          params |-> "none"]))
    /\ UNCHANGED <<serverVars, closed, output, platform, body, pc, headers, somestring, requests,
                   response, exit_code, error, worker, wait_iter, frameno, calls, owed, todo, responses>>

\* frames a decoder cannot take: a header block without Content-Length, a
\* Content-Length that is no number, a header line without ": "; and a frame
\* whose body is no JSON
MalformedFrames ==
    { S_ContentType \o S_CRLF2 \o RequestText([method |-> "version", id |-> 1, params |-> "none"]),
      S_BadLength \o S_CRLF2,
      S_NoSeparator \o S_CRLF2,
      ClientFrame(S_Garbage) }

ClientSendMalformed ==
    /\ ClientTurn /\ frameno < MaxFrames
    /\ \E f \in MalformedFrames : input' = f
    /\ output' = <<>>
    /\ UNCHANGED <<serverVars, closed, platform, body, pc, headers, somestring, requests,
                   response, exit_code, error, worker, wait_iter, frameno, calls, owed, todo, responses>>

\* what is left of a frame when the pipe closes inside it: the header line
\* cut short, the header block without its body, the body short of its end
TruncatedFrames ==
    LET b == RequestText([method |-> "version", id |-> frameno + 1, params |-> "none"])
        f == ClientFrame(b)
    IN  { SubSeq(f, 1, Len(S_ContentLength)),
          SubSeq(f, 1, Len(f) - Len(b)),
          SubSeq(f, 1, Len(f) - 1) }

\* the client dies in the middle of a frame
ClientSendTruncated ==
    /\ ClientTurn /\ frameno < MaxFrames
    /\ \E f \in TruncatedFrames : input' = f
    /\ closed' = TRUE
    /\ output' = <<>>
    /\ UNCHANGED <<serverVars, platform, body, pc, headers, somestring, requests, response,
                   exit_code, error, worker, wait_iter, frameno, calls, owed, todo, responses>>

\* the client closes its end of the input pipe
ClientClose ==
    /\ ClientTurn
    /\ closed' = TRUE
    /\ UNCHANGED <<serverVars, input, output, platform, body, pc, headers, somestring, requests,
                   response, exit_code, error, worker, wait_iter, frameno, calls, owed, todo, responses>>

(***************************************************************************)
(* The server's methods.                                                   *)
(***************************************************************************)
\* the callable initialize_dispatcher binds to a domain method
Binding(m) ==
    CASE m = "connection/connect" -> "ConnectionService.handle_connect_request"
      [] m = "connection/disconnect" -> "ConnectionService.handle_disconnect_request"
      [] m = "shutdown" -> "Server.shutdown"
      [] m = "exit" -> "Server.exit"
      [] m = "echo" -> "Server.echo"
      [] m = "version" -> "version"
      [] m = "capabilities/list" -> "capabilities"
      [] m = "wait" -> "Server.wait"

initialize_dispatcher_Fresh(d) == [m \in DomainMethods |-> Binding(m)]

initialize_dispatcher_NoWait(d) ==
    [m \in (DOMAIN d) \cup (DomainMethods \ {"wait"}) |->
        IF m \in DomainMethods THEN Binding(m) ELSE d[m]]

\* the dispatch table after initialize_dispatcher, from the table d before
initialize_dispatcher(d) ==
    [m \in (DOMAIN d) \cup DomainMethods |->
        IF m \in DomainMethods THEN Binding(m) ELSE d[m]]

\* the write of a string on output_stream, tagged with who wrote it and
\* during which frame
Write(src, text) == [src |-> src, text |-> text, frame |-> frameno]

initialize ==
    /\ dispatcher' = initialize_dispatcher(dispatcher)
    /\ UNCHANGED <<is_shutdown, should_exit, threads, output>>
\* shutdown that also asks for the exit
shutdown_AndExit ==
    /\ is_shutdown' = TRUE
    /\ should_exit' = TRUE
    /\ UNCHANGED <<threads, dispatcher, output>>

shutdown ==
    /\ is_shutdown' = TRUE
    /\ UNCHANGED <<should_exit, threads, dispatcher, output>>
\* exit that does not set the flag
exit_Forgets ==
    /\ should_exit' = should_exit
    /\ UNCHANGED <<is_shutdown, threads, dispatcher, output>>

exit ==
    /\ should_exit' = TRUE
    /\ UNCHANGED <<is_shutdown, threads, dispatcher, output>>

\* every join of wait has returned: no registered thread is running
wait ==
    /\ threads \cap alive = {}
    /\ UNCHANGED <<is_shutdown, should_exit, threads, dispatcher, output>>

register_thread(thread) ==
    /\ threads' = threads \cup {thread}
\* echo going through the frame encoder
echo_Framed(arg) ==
    /\ output' = Append(output, Write("echo", full_output(arg, platform)))
    /\ UNCHANGED <<is_shutdown, should_exit, threads, dispatcher>>

echo(arg) ==
    /\ output' = Append(output, Write("echo", arg))
    /\ UNCHANGED <<is_shutdown, should_exit, threads, dispatcher>>
\* the header and the body handed to the stream in two write calls
handle_output_TwoWrites(src, output_string) ==
    /\ output' = Append(Append(output,
                     Write(src, S_ContentLength \o S_Sep
                                  \o DecimalStr(Len(output_string))
                                  \o newlines(platform))),
                     Write(src, output_string))

handle_output(src, output_string) ==
    /\ output' = Append(output, Write(src, full_output(output_string, platform)))

send_event(event_name, event_params) ==
    /\ handle_output("event", S_EventHead \o event_name \o S_EventParams \o event_params)

\* whether a call of the bound callable with these params binds its parameters
SignatureOk(callable, p) ==
    CASE callable = "Server.initialize" -> p \in {"none", "pid"}
      [] callable \in {"Server.shutdown", "Server.exit", "Server.wait", "version"}
            -> p = "none"
      [] callable = "Server.echo" -> p \in {"arg", "num"}
      [] callable = "capabilities" -> p = "host"
      [] OTHER -> TRUE

(***************************************************************************)
(* The server loop, handle_input.                                          *)
(***************************************************************************)
\* line 148, a header block read to its blank line
ReadHeaders ==
    /\ pc = "read_headers"
    /\ LET r == read_headers(input, closed)
       IN  /\ r.status = "ok"
           /\ headers' = r.headers
           /\ input' = r.rest
    /\ pc' = "read_content"
    /\ UNCHANGED <<serverVars, closed, output, platform, body, somestring, requests, response,
                   exit_code, error, worker, wait_iter, frameno, calls, owed, todo, responses>>

\* line 129 raises IndexError on a header line without ": "
ReadHeadersIndexError ==
    /\ pc = "read_headers"
    /\ LET r == read_headers(input, closed)
       IN  /\ r.status = "IndexError"
           /\ input' = r.rest
    /\ pc' = "crashed"
    /\ error' = "IndexError"
    /\ UNCHANGED <<serverVars, closed, output, platform, body, headers, somestring, requests,
                   response, exit_code, worker, wait_iter, frameno, calls,
                   owed, todo, responses>>

\* line 149 raises KeyError when the headers hold no Content-Length
ReadContentKeyError ==
    /\ pc = "read_content"
    /\ S_ContentLength \notin DOMAIN headers
    /\ pc' = "crashed"
    /\ error' = "KeyError"
    /\ UNCHANGED <<serverVars, clientVars, output, headers, somestring, requests, response,
                   exit_code, worker, wait_iter, frameno, calls, owed, todo, responses>>

\* line 149 raises ValueError when int() rejects the Content-Length
ReadContentValueError ==
    /\ pc = "read_content"
    /\ S_ContentLength \in DOMAIN headers
    /\ ~ParseInt(headers[S_ContentLength]).ok
    /\ pc' = "crashed"
    /\ error' = "ValueError"
    /\ UNCHANGED <<serverVars, clientVars, output, headers, somestring, requests, response,
                   exit_code, worker, wait_iter, frameno, calls, owed, todo, responses>>

\* line 149, the body read
ReadContent ==
    /\ pc = "read_content"
    /\ S_ContentLength \in DOMAIN headers
    /\ ParseInt(headers[S_ContentLength]).ok
    /\ LET r == read_content(ParseInt(headers[S_ContentLength]).value, input, closed)
       IN  /\ r.status = "ok"
           /\ somestring' = r.content
           /\ requests' = Requests(r.content)
           /\ input' = r.rest
    /\ pc' = "handle"
    /\ frameno' = frameno + 1
    /\ UNCHANGED <<serverVars, closed, output, platform, body, headers, response,
                   exit_code, error, worker, wait_iter, calls, owed, todo, responses>>

\* the request JSONRPCResponseManager._get_responses is at
Req == requests[todo]

\* requests is what the JSON RPC layer finds in somestring
RequestsOfBody == requests = Requests(somestring)

\* how often each lifecycle handler has been called, counted to 2
invoked ==
    [h \in {"initialize", "shutdown", "exit"} |->
        Cardinality({i \in DOMAIN calls : calls[i] = h})]

\* calls after one more call of handler h
Called(h) == IF invoked[h] < 2 THEN Append(calls, h) ELSE calls

\* the response the JSON RPC layer returns for a request: none without an id
Respond(req, kind, payload) ==
    IF req.id = 0 THEN None ELSE Response(req.id, kind, payload)

\* what line 151 returns for the responses rs of the frame's requests: none
\* when there is none, the one response of a single request, a batch response
LoopResponse(rs) ==
    IF rs = <<>> THEN None
    ELSE IF Len(requests) > 1 THEN BatchResponse ELSE rs[1]

\* the JSON RPC layer is done with the request it is at, with response resp:
\* it goes on to the next request of the batch, or line 151 returns
Handled(resp) ==
    LET rs == IF resp = None THEN responses ELSE Append(responses, resp)
    IN  /\ responses' = rs
        /\ IF todo < Len(requests)
           THEN /\ todo' = todo + 1
                /\ UNCHANGED <<pc, response, owed>>
           ELSE /\ todo' = 1
                /\ pc' = "check_exit"
                /\ response' = LoopResponse(rs)
                /\ owed' = IF rs = <<>> THEN 0 ELSE frameno
        /\ UNCHANGED <<clientVars, headers, somestring, requests, exit_code, error, frameno>>

\* response.json of the response line 151 returned
json(resp) == IF resp.kind = "batch" THEN BatchJson(responses) ELSE ResponseJson(resp)

\* line 151 looks the method up and finds callable bound to it
Calls(callable) ==
    /\ pc = "handle"
    /\ requests[1].ok
    /\ Req.method \in DOMAIN dispatcher
    /\ dispatcher[Req.method] = callable

HandleParseError ==
    /\ pc = "handle"
    /\ ~requests[1].ok
    /\ Handled(Response(0, "error", "ParseError"))
    /\ UNCHANGED <<serverVars, output, worker, wait_iter, calls>>

HandleMethodNotFound ==
    /\ pc = "handle"
    /\ requests[1].ok
    /\ Req.method \notin DOMAIN dispatcher
    /\ Handled(Respond(Req, "error", "MethodNotFound"))
    /\ UNCHANGED <<serverVars, output, worker, wait_iter, calls>>

\* the call raises TypeError before the method's body runs
HandleInvalidParams ==
    /\ \E c \in {Binding(m) : m \in DomainMethods} \cup {"Server.initialize"} :
         Calls(c) /\ ~SignatureOk(c, Req.params)
    /\ Handled(Respond(Req, "error", "InvalidParams"))
    /\ UNCHANGED <<serverVars, output, worker, wait_iter, calls>>

HandleInitialize ==
    /\ Calls("Server.initialize")
    /\ SignatureOk("Server.initialize", Req.params)
    /\ initialize
    /\ calls' = Called("initialize")
    /\ Handled(Respond(Req, "result", "InitializeResult"))
    /\ UNCHANGED <<worker, wait_iter>>

HandleShutdown ==
    /\ Calls("Server.shutdown")
    /\ SignatureOk("Server.shutdown", Req.params)
    /\ shutdown
    /\ calls' = Called("shutdown")
    /\ Handled(Respond(Req, "result", "null"))
    /\ UNCHANGED <<worker, wait_iter>>

HandleExit ==
    /\ Calls("Server.exit")
    /\ SignatureOk("Server.exit", Req.params)
    /\ exit
    /\ calls' = Called("exit")
    /\ Handled(Respond(Req, "result", "null"))
    /\ UNCHANGED <<worker, wait_iter>>

HandleWait ==
    /\ Calls("Server.wait")
    /\ SignatureOk("Server.wait", Req.params)
    /\ wait
    /\ Handled(Respond(Req, "result", "null"))
    /\ UNCHANGED <<worker, wait_iter, calls>>

HandleEcho ==
    /\ Calls("Server.echo")
    /\ Req.params = "arg"
    /\ echo(S_hi)
    /\ Handled(Respond(Req, "result", "null"))
    /\ UNCHANGED <<worker, wait_iter, calls>>

HandleEchoError_Propagates ==
    /\ Calls("Server.echo")
    /\ Req.params = "num"
    /\ pc' = "crashed"
    /\ error' = "TypeError"
    /\ UNCHANGED <<serverVars, clientVars, output, headers, somestring, requests, response,
                   exit_code, worker, wait_iter, frameno, calls, owed, todo, responses>>

\* output_stream.write of an argument that is no string raises TypeError
HandleEchoError ==
    /\ Calls("Server.echo")
    /\ Req.params = "num"
    /\ Handled(Respond(Req, "error", "ServerError"))
    /\ UNCHANGED <<serverVars, output, worker, wait_iter, calls>>

HandleVersion ==
    /\ Calls("version")
    /\ SignatureOk("version", Req.params)
    /\ Handled(Respond(Req, "result", "0"))
    /\ UNCHANGED <<serverVars, output, worker, wait_iter, calls>>

HandleCapabilities ==
    /\ Calls("capabilities")
    /\ SignatureOk("capabilities", Req.params)
    /\ Handled(Respond(Req, "result", "CapabilitiesResult"))
    /\ UNCHANGED <<serverVars, output, worker, wait_iter, calls>>

\* the connection service's handlers are outside this file: a connect may
\* start a background worker and register it, and either handler may raise
HandleConnect ==
    /\ Calls("ConnectionService.handle_connect_request")
    /\ \/ \E w \in Workers :
            /\ worker[w] = "unstarted"
            /\ register_thread(w)
            /\ worker' = [worker EXCEPT ![w] = "running"]
       \/ UNCHANGED <<threads, worker>>
    /\ Handled(Respond(Req, "result", "true"))
    /\ UNCHANGED <<is_shutdown, should_exit, dispatcher, output, calls, wait_iter>>

HandleDisconnect ==
    /\ Calls("ConnectionService.handle_disconnect_request")
    /\ Handled(Respond(Req, "result", "true"))
    /\ UNCHANGED <<serverVars, output, worker, wait_iter, calls>>

HandleExternalError ==
    /\ \/ Calls("ConnectionService.handle_connect_request")
       \/ Calls("ConnectionService.handle_disconnect_request")
    /\ Handled(Respond(Req, "error", "ServerError"))
    /\ UNCHANGED <<serverVars, output, worker, wait_iter, calls>>

\* the argument of sys.exit on line 153
ExitCode(shut) == IF shut THEN 0 ELSE 1
\* the exit check taking the shutdown flag for the exit flag
ExitCheck_OnShutdown ==
    /\ pc = "check_exit"
    /\ should_exit \/ is_shutdown
    /\ pc' = "exited"
    /\ exit_code' = <<ExitCode(is_shutdown)>>
    /\ UNCHANGED <<serverVars, clientVars, output, headers, somestring, requests, response,
                   error, worker, wait_iter, frameno, calls, owed, todo, responses>>

\* lines 152-153
ExitCheck ==
    /\ pc = "check_exit"
    /\ should_exit
    /\ pc' = "exited"
    /\ exit_code' = <<ExitCode(is_shutdown)>>
    /\ UNCHANGED <<serverVars, clientVars, output, headers, somestring, requests, response,
                   error, worker, wait_iter, frameno, calls, owed, todo, responses>>

NoResponse_DropsResponse ==
    /\ pc = "check_exit"
    /\ ~should_exit
    /\ pc' = "read_headers"
    /\ headers' = EmptyDict
    /\ somestring' = <<>>
    /\ requests' = Requests(<<>>)
    /\ UNCHANGED <<serverVars, clientVars, output, response, exit_code, error,
                   worker, wait_iter, frameno, calls, owed, todo, responses>>

NoResponse_WritesNull ==
    /\ pc = "check_exit"
    /\ ~should_exit
    /\ response = None
    /\ handle_output("response", S_null)
    /\ pc' = "read_headers"
    /\ headers' = EmptyDict
    /\ somestring' = <<>>
    /\ requests' = Requests(<<>>)
    /\ UNCHANGED <<serverVars, clientVars, response, exit_code, error, worker, wait_iter,
                   frameno, calls, owed, todo, responses>>

\* lines 154-155; the locals are dead until the next frame sets them
NoResponse ==
    /\ pc = "check_exit"
    /\ ~should_exit
    /\ response = None
    /\ pc' = "read_headers"
    /\ headers' = EmptyDict
    /\ somestring' = <<>>
    /\ requests' = Requests(<<>>)
    /\ UNCHANGED <<serverVars, clientVars, output, response, exit_code, error,
                   worker, wait_iter, frameno, calls, owed, todo, responses>>

WriteResponse_DropErrors ==
    /\ pc = "check_exit"
    /\ ~should_exit
    /\ response # None
    /\ IF response.kind = "result"
       THEN handle_output("response", json(response))
       ELSE output' = output
    /\ pc' = "read_headers"
    /\ headers' = EmptyDict
    /\ somestring' = <<>>
    /\ requests' = Requests(<<>>)
    /\ response' = None
    /\ owed' = 0
    /\ responses' = <<>>
    /\ todo' = todo
    /\ UNCHANGED <<serverVars, clientVars, exit_code, error, worker, wait_iter, frameno,
                   calls>>

WriteResponse ==
    /\ pc = "check_exit"
    /\ ~should_exit
    /\ response # None
    /\ handle_output("response", json(response))
    /\ pc' = "read_headers"
    /\ headers' = EmptyDict
    /\ somestring' = <<>>
    /\ requests' = Requests(<<>>)
    /\ response' = None
    /\ owed' = 0
    /\ responses' = <<>>
    /\ todo' = todo
    /\ UNCHANGED <<serverVars, clientVars, exit_code, error, worker, wait_iter, frameno,
                   calls>>

(***************************************************************************)
(* Background workers.                                                     *)
(***************************************************************************)
WorkerSendEvent ==
    /\ \E w \in Workers :
         /\ worker[w] = "running"
         /\ worker' = [worker EXCEPT ![w] = "reported"]
    /\ send_event(S_EventName, S_true)
    /\ UNCHANGED <<serverVars, clientVars, pc, headers, somestring, requests, response,
                   exit_code, error, frameno, calls, owed, todo, responses, wait_iter>>

WorkerFinish ==
    /\ \E w \in Workers :
         /\ worker[w] \in {"running", "reported"}
         /\ worker' = [worker EXCEPT ![w] = "finished"]
    /\ UNCHANGED <<serverVars, clientVars, output, pc, headers, somestring, requests,
                   response, exit_code, error, frameno, calls, owed, todo, responses,
                   wait_iter>>
\* the steps of the loop thread on a frame it has read: line 151 to line 156
DispatchNext ==
    \/ HandleParseError
    \/ HandleMethodNotFound
    \/ HandleInvalidParams
    \/ HandleInitialize
    \/ HandleShutdown
    \/ HandleExit
    \/ HandleWait
    \/ HandleEcho
    \/ HandleEchoError
    \/ HandleVersion
    \/ HandleCapabilities
    \/ HandleConnect
    \/ HandleDisconnect
    \/ HandleExternalError
    \/ ExitCheck
    \/ NoResponse
    \/ WriteResponse

Next ==
    \/ ClientSend
    \/ ClientSendBatch
    \/ ClientSendAhead
    \/ ClientSendMalformed
    \/ ClientSendTruncated
    \/ ClientClose
    \/ ReadHeaders
    \/ ReadHeadersIndexError
    \/ ReadContentKeyError
    \/ ReadContentValueError
    \/ ReadContent
    \/ HandleParseError
    \/ HandleMethodNotFound
    \/ HandleInvalidParams
    \/ HandleInitialize
    \/ HandleShutdown
    \/ HandleExit
    \/ HandleWait
    \/ HandleEcho
    \/ HandleEchoError
    \/ HandleVersion
    \/ HandleCapabilities
    \/ HandleConnect
    \/ HandleDisconnect
    \/ HandleExternalError
    \/ ExitCheck
    \/ NoResponse
    \/ WriteResponse
    \/ WorkerSendEvent
    \/ WorkerFinish

Spec == Init /\ [][Next]_vars

\* The server with its scheduling: once the loop thread has read a frame it
\* takes its next step whenever it has one (a handler that was called
\* returns, the exit check and the write run), and a worker that runs comes to
\* its end, which is what lets a wait inside the loop return.  Nothing is
\* assumed of the client or of the reads, which wait for it.
LiveSpec == Init /\ [][Next]_vars /\ WF_vars(DispatchNext) /\ WF_vars(WorkerFinish)

(***************************************************************************)
(* The codec on its own: a string is written by handle_output, the text    *)
(* written is replayed as an input stream, and read_headers and            *)
(* read_content decode it.                                                 *)
(***************************************************************************)
CodecAlphabet == {"a", ":", " ", "\n", "\r", "U+00E9"}

Strings(n) == UNION {[1..k -> CodecAlphabet] : k \in 0..n}

RECURSIVE Flatten(_)
Flatten(writes) ==
    IF writes = <<>> THEN <<>> ELSE Head(writes).text \o Flatten(Tail(writes))

CodecInit ==
    /\ is_shutdown = FALSE
    /\ should_exit = FALSE
    /\ threads = {}
    /\ dispatcher = [m \in {"initialize"} |-> "Server.initialize"]
    /\ input = <<>>
    /\ closed = FALSE
    /\ output = <<>>
    /\ platform \in Platforms
    /\ pc = "encode"
    /\ headers = EmptyDict
    /\ somestring = <<>>
    /\ requests = Requests(<<>>)
    /\ response = None
    /\ exit_code = <<>>
    /\ error = "none"
    /\ worker = [w \in Workers |-> "unstarted"]
    /\ wait_iter = NoIter
    /\ frameno = 0
    /\ calls = <<>>
    /\ owed = 0
    /\ todo = 1
    /\ responses = <<>>
    /\ body \in Strings(MaxLen)

CodecEncode ==
    /\ pc = "encode"
    /\ handle_output("codec", body)
    /\ pc' = "replay"
    /\ UNCHANGED <<serverVars, clientVars, headers, somestring, requests, response,
                   exit_code, error, worker, wait_iter, frameno, calls, owed, todo, responses>>

\* the input stream holds exactly what was written, and then ends
CodecReplay ==
    /\ pc = "replay"
    /\ input' = Flatten(output)
    /\ closed' = TRUE
    /\ pc' = "decode_headers"
    /\ UNCHANGED <<serverVars, output, platform, body, headers, somestring, requests,
                   response, exit_code, error, worker, wait_iter, frameno, calls, owed, todo, responses>>

CodecReadHeaders ==
    /\ pc = "decode_headers"
    /\ LET r == read_headers(input, closed)
       IN  /\ headers' = r.headers
           /\ input' = r.rest
           /\ pc' = IF r.status = "ok" THEN "decode_content" ELSE "crashed"
           /\ error' = IF r.status = "ok" THEN error ELSE r.status
    /\ UNCHANGED <<serverVars, closed, output, platform, body, somestring, requests,
                   response, exit_code, worker, wait_iter, frameno, calls, owed, todo, responses>>

\* read_content(int(headers['Content-Length']))
CodecReadContent ==
    /\ pc = "decode_content"
    /\ IF S_ContentLength \notin DOMAIN headers
       THEN pc' = "crashed" /\ error' = "KeyError" /\ UNCHANGED <<input, somestring, requests>>
       ELSE IF ~ParseInt(headers[S_ContentLength]).ok
       THEN pc' = "crashed" /\ error' = "ValueError" /\ UNCHANGED <<input, somestring, requests>>
       ELSE LET r == read_content(ParseInt(headers[S_ContentLength]).value, input, closed)
            IN  /\ somestring' = r.content
                /\ requests' = requests
                /\ input' = r.rest
                /\ pc' = "decoded"
                /\ error' = error
    /\ UNCHANGED <<serverVars, closed, output, platform, body, headers, response,
                   exit_code, worker, wait_iter, frameno, calls, owed, todo, responses>>

CodecNext ==
    \/ CodecEncode
    \/ CodecReplay
    \/ CodecReadHeaders
    \/ CodecReadContent

CodecSpec == CodecInit /\ [][CodecNext]_vars

(***************************************************************************)
(* The header decoder on its own: read_headers applied to one header line  *)
(* drawn from a small alphabet, followed by the blank line and by text     *)
(* that looks like a header.                                               *)
(***************************************************************************)
HeaderAlphabet == {"a", ":", " "}

HeaderLines == UNION {[1..k -> HeaderAlphabet] : k \in 0..MaxLine}

\* text after the blank line
S_AfterBlank == <<"a",":"," ","a">>

HeaderInit ==
    /\ is_shutdown = FALSE
    /\ should_exit = FALSE
    /\ threads = {}
    /\ dispatcher = [m \in {"initialize"} |-> "Server.initialize"]
    /\ input = <<>>
    /\ closed = FALSE
    /\ output = <<>>
    /\ platform = "linux"
    /\ pc = "feed"
    /\ headers = EmptyDict
    /\ somestring = <<>>
    /\ requests = Requests(<<>>)
    /\ response = None
    /\ exit_code = <<>>
    /\ error = "none"
    /\ worker = [w \in Workers |-> "unstarted"]
    /\ wait_iter = NoIter
    /\ frameno = 0
    /\ calls = <<>>
    /\ owed = 0
    /\ todo = 1
    /\ responses = <<>>
    /\ body \in HeaderLines

\* the input stream holds the header line, the blank line and the text after
\* it, and then ends
HeaderFeed ==
    /\ pc = "feed"
    /\ input' = body \o S_CRLF \o S_CRLF \o S_AfterBlank
    /\ closed' = TRUE
    /\ pc' = "decode_headers"
    /\ UNCHANGED <<serverVars, output, platform, body, headers, somestring, requests,
                   response, exit_code, error, worker, wait_iter, frameno, calls, owed,
                   todo, responses>>

HeaderNext ==
    \/ HeaderFeed
    \/ CodecReadHeaders

HeaderSpec == HeaderInit /\ [][HeaderNext]_vars

(***************************************************************************)
(* The thread registry: register_thread and wait, with wait's loop over    *)
(* Server.threads taken one step at a time and threads that register       *)
(* handles while it runs.  In Spec above wait is one step, since there     *)
(* only the loop thread registers; here a running thread may register too. *)
(***************************************************************************)
Handles == 1..MaxHandles

\* every variable the registry does not use
registryIdle ==
    <<is_shutdown, should_exit, dispatcher, input, closed, output, platform, headers,
      somestring, requests, response, exit_code, frameno, calls, owed, todo, responses,
      body>>

RegistryInit ==
    /\ is_shutdown = FALSE
    /\ should_exit = FALSE
    /\ threads = {}
    /\ dispatcher = [m \in {"initialize"} |-> "Server.initialize"]
    /\ input = <<>>
    /\ closed = FALSE
    /\ output = <<>>
    /\ platform = "linux"
    /\ pc = "call"
    /\ headers = EmptyDict
    /\ somestring = <<>>
    /\ requests = Requests(<<>>)
    /\ response = None
    /\ exit_code = <<>>
    /\ error = "none"
    /\ worker = [h \in Handles |-> "unstarted"]
    /\ wait_iter = NoIter
    /\ frameno = 0
    /\ calls = <<>>
    /\ owed = 0
    /\ todo = 1
    /\ responses = <<>>
    /\ body = <<>>

\* a thread is started and its handle registered, or a handle that is in the
\* set is registered once more
Register ==
    \E h \in Handles :
        /\ \/ /\ worker[h] = "unstarted"
              /\ worker' = [worker EXCEPT ![h] = "running"]
           \/ /\ h \in threads
              /\ worker' = worker
        /\ register_thread(h)

\* the thread that calls wait registers a handle before the call
CallerRegisters ==
    /\ pc = "call"
    /\ Register
    /\ UNCHANGED <<registryIdle, pc, error, wait_iter>>

\* a running thread registers a handle, whatever the caller of wait is doing
ThreadRegisters ==
    /\ \E w \in Handles : worker[w] = "running"
    /\ Register
    /\ UNCHANGED <<registryIdle, pc, error, wait_iter>>

ThreadFinish ==
    /\ \E h \in Handles :
         /\ worker[h] = "running"
         /\ worker' = [worker EXCEPT ![h] = "finished"]
    /\ UNCHANGED <<registryIdle, threads, pc, error, wait_iter>>

\* thread.join() with a timeout that has run out
join_TimedOut(thread) == TRUE

\* thread.join() returns: the thread has ended
join(thread) == worker[thread] = "finished"

\* wait is called: the for statement opens an iterator on the set, which
\* records the size of the set
WaitCall ==
    /\ pc = "call"
    /\ wait_iter' = [at_call |-> threads, used |-> Cardinality(threads),
                     left |-> threads, thread |-> 0]
    /\ pc' = "wait_for"
    /\ UNCHANGED <<registryIdle, threads, worker, error>>

\* the for statement asks the iterator for the next handle: RuntimeError
\* ("Set changed size during iteration") when the size is no longer the one
\* recorded, the end of the loop when no handle is left, a handle otherwise
WaitFor ==
    /\ pc = "wait_for"
    /\ IF Cardinality(threads) # wait_iter.used
         THEN /\ pc' = "wait_raised"
              /\ error' = "RuntimeError"
              /\ wait_iter' = wait_iter
         ELSE IF wait_iter.left = {}
         THEN /\ pc' = "wait_returned"
              /\ UNCHANGED <<error, wait_iter>>
         ELSE /\ \E t \in wait_iter.left :
                    wait_iter' = [wait_iter EXCEPT !.left = @ \ {t}, !.thread = t]
              /\ pc' = "wait_join"
              /\ error' = error
    /\ UNCHANGED <<registryIdle, threads, worker>>

WaitJoin ==
    /\ pc = "wait_join"
    /\ join(wait_iter.thread)
    /\ pc' = "wait_for"
    /\ UNCHANGED <<registryIdle, threads, worker, error, wait_iter>>

\* the caller goes on after wait has returned or raised
WaitOver ==
    /\ pc \in {"wait_returned", "wait_raised"}
    /\ pc' = "call"
    /\ error' = "none"
    /\ wait_iter' = NoIter
    /\ UNCHANGED <<registryIdle, threads, worker>>

RegistryNext ==
    \/ CallerRegisters
    \/ ThreadRegisters
    \/ ThreadFinish
    \/ WaitCall
    \/ WaitFor
    \/ WaitJoin
    \/ WaitOver

RegistrySpec == RegistryInit /\ [][RegistryNext]_vars

(***************************************************************************)
(* The claims.                                                             *)
(***************************************************************************)
\* the writes of the loop thread among the writes on the output stream
LoopWrites(out) == SelectSeq(out, LAMBDA w : w.src \in {"response", "echo"})

\* the responses among the writes on the output stream
Responses(out) == SelectSeq(out, LAMBDA w : w.src = "response")

IsPrefix(s, t) == Len(s) <= Len(t) /\ SubSeq(t, 1, Len(s)) = s

\* the loop thread takes a step
LoopStep == <<pc, todo>>' # <<pc, todo>>

\* the JSON RPC layer produces r, or nothing when r is None, for the request
\* it is at
Produced(r) == responses' = IF r = None THEN responses ELSE Append(responses, r)

\* the exit check is the only source of an exit code, and the code is the one
\* is_shutdown selects when the check runs
ExitCodeReflectsFlag ==
    /\ exit_code \in {<<>>, <<0>>, <<1>>}
    /\ (pc = "exited") <=> (exit_code # <<>>)
    /\ pc = "exited" =>
        /\ should_exit
        /\ invoked["exit"] > 0
        /\ exit_code = IF is_shutdown THEN <<0>> ELSE <<1>>

\* a shutdown was handled before the first exit
ShutdownBeforeExit ==
    \E i, j \in DOMAIN calls :
        /\ i < j
        /\ calls[i] = "shutdown"
        /\ calls[j] = "exit"
        /\ \A k \in 1..(j - 1) : calls[k] # "exit"

\* C1: the exit check is the only source of an exit code; the code is 0 when a
\* shutdown request was handled before the exit request and 1 when exit was
\* handled with no shutdown before it.
C1_ExitCode ==
    /\ ExitCodeReflectsFlag
    /\ pc = "exited" => exit_code = IF ShutdownBeforeExit THEN <<0>> ELSE <<1>>

\* exit was handled first, shutdown after it in the same frame, and the
\* process left with code 0
C1_ExitThenShutdown ==
    /\ pc = "exited"
    /\ exit_code = <<0>>
    /\ Len(requests) > 1
    /\ requests[1].method = "exit"
    /\ requests[2].method = "shutdown"
    /\ calls = <<"initialize", "exit", "shutdown">>

\* C2: handshake gating.  Before initialize has been invoked the dispatch table
\* binds initialize alone, so a request for a domain method gets "method not
\* found" and changes no server state; once initialize has been invoked every
\* domain method is bound and its dispatch does not end in "method not found".
C2_TableGated ==
    /\ invoked["initialize"] = 0 => DOMAIN dispatcher = {"initialize"}
    /\ invoked["initialize"] > 0 =>
        /\ DOMAIN dispatcher = {"initialize"} \cup DomainMethods
        /\ \A m \in DomainMethods : dispatcher[m] = Binding(m)

C2_DispatchGated ==
    (pc = "handle" /\ LoopStep /\ requests[1].ok
        /\ Req.method \in DomainMethods) =>
        /\ invoked["initialize"] = 0 =>
             /\ Produced(Respond(Req, "error", "MethodNotFound"))
             /\ UNCHANGED <<serverVars, output, calls>>
        /\ invoked["initialize"] > 0 =>
             \A i \in DOMAIN responses' \ DOMAIN responses :
                 responses'[i].payload # "MethodNotFound"

C2_HandshakeGating == []C2_TableGated /\ [][C2_DispatchGated]_vars

C2_Witness ==
    /\ invoked["initialize"] = 0
    /\ pc = "check_exit"
    /\ requests[1].ok
    /\ Req.method = "connection/connect"
    /\ response = Response(frameno, "error", "MethodNotFound")

\* what the loop thread does not do in a step: write, read, call a handler
LoopIdle ==
    /\ LoopWrites(output') = LoopWrites(output)
    /\ IsPrefix(input, input')
    /\ UNCHANGED <<serverVars, headers, somestring, requests, response, responses, frameno,
                   calls, error>>

\* once line 151 has returned with should_exit set, the loop thread's only
\* step is the exit: the frame's response is not written and no later frame
\* is read or dispatched
ExitSkipsLaterFrames ==
    [][(should_exit /\ pc # "handle") =>
          pc \in {"check_exit", "exited"} /\ pc' \in {pc, "exited"} /\ LoopIdle]_vars

\* C3: once a frame's handling has set should_exit, the loop thread's only step
\* is the exit: it writes nothing (not that frame's response either), reads
\* nothing and invokes no handler.
C3_AfterExit ==
    should_exit =>
        /\ pc \in {"check_exit", "exited"}
        /\ pc' \in {pc, "exited"}
        /\ LoopIdle

C3_ExitSkipsEverything == [][C3_AfterExit]_vars

\* exit was handled first, echo after it in the same frame: echo has written
\* its argument on the output since the exit handler returned
C3_EchoAfterExit ==
    /\ pc = "exited"
    /\ Len(requests) > 1
    /\ requests[1].method = "exit"
    /\ requests[2].method = "echo"
    /\ output = <<[src |-> "echo", text |-> S_hi, frame |-> frameno]>>

\* C4: FIFO response ordering.  The response of a frame is written whole, by
\* one step, before the loop reads or dispatches the next frame, and the
\* responses on the output stream are in the order of their frames.
C4_NothingOwed == pc \in {"read_headers", "read_content", "handle"} => owed = 0

C4_InOrder ==
    \A i, j \in DOMAIN Responses(output) :
        i < j => Responses(output)[i].frame < Responses(output)[j].frame

C4_WriteStep ==
    (owed # 0 /\ owed' = 0) =>
        /\ owed = frameno
        /\ output' = Append(output,
                [src |-> "response",
                 text |-> full_output(json(response), platform),
                 frame |-> owed])

C4_FifoResponses == [](C4_NothingOwed /\ C4_InOrder) /\ [][C4_WriteStep]_vars

\* two consecutive frames were both in the pipe before the first was answered
C4_Witness ==
    /\ Len(Responses(output)) = 2
    /\ Responses(output)[1].frame = 1
    /\ Responses(output)[2].frame = 2

\* the dispatch table initialize leaves
FullTable ==
    [m \in {"initialize"} \cup DomainMethods |->
        IF m = "initialize" THEN "Server.initialize" ELSE Binding(m)]

\* C6: idempotent initialize.  Every call of initialize, whatever its params,
\* leaves the same dispatch table (a second call leaves the table as it
\* found it), leaves is_shutdown, should_exit and the thread set alone, and
\* returns the same capability descriptor.
C6_InitializeStep ==
    (Calls("Server.initialize") /\ LoopStep
        /\ SignatureOk("Server.initialize", Req.params)) =>
        /\ dispatcher' = FullTable
        /\ invoked["initialize"] > 0 => dispatcher' = dispatcher
        /\ UNCHANGED <<is_shutdown, should_exit, threads, output>>
        /\ Produced(Respond(Req, "result", "InitializeResult"))

C6_IdempotentInitialize == [][C6_InitializeStep]_vars

C6_Witness ==
    /\ invoked["initialize"] = 2
    /\ pc = "check_exit"
    /\ requests[1].ok /\ Req.method = "initialize" /\ Req.params = "pid"
    /\ dispatcher = FullTable
    /\ response = Response(frameno, "result", "InitializeResult")

\* the frame written for the "method not found" response to request id
NotFoundFrame(id) ==
    full_output(S_Head \o S_Id \o DecimalStr(id) \o S_Error \o S_MethodNotFound
                    \o S_Close, platform)

\* C7: dispatch error.  A request with an id whose method is not bound gets the
\* "method not found" error response with its id, once; no flag, thread set or
\* binding changes; the response is written (as the frame's response, or in
\* the response of the batch the request came in) unless the frame also set
\* should_exit, and the loop goes on to read the next frame.
C7_NotFoundStep ==
    (pc = "handle" /\ LoopStep /\ requests[1].ok /\ Req.id # 0
        /\ Req.method \notin DOMAIN dispatcher) =>
        /\ Produced(Response(Req.id, "error", "MethodNotFound"))
        /\ pc' \in {"handle", "check_exit"}
        /\ UNCHANGED <<serverVars, output, calls, error>>

C7_NotFoundWritten ==
    (pc = "check_exit" /\ LoopStep /\ ~should_exit /\ responses # <<>>) =>
        /\ \A i \in DOMAIN Responses(output) : Responses(output)[i].frame # frameno
        /\ output' = Append(output,
              [src |-> "response",
               text |-> full_output(IF Len(requests) > 1 THEN BatchJson(responses)
                                    ELSE ResponseJson(responses[1]), platform),
               frame |-> frameno])
        /\ Len(requests) = 1 => Len(responses) = 1
        /\ pc' = "read_headers"
        /\ UNCHANGED <<serverVars, calls, error>>

HandlerRaises ==
    /\ pc = "handle" /\ requests[1].ok
    /\ Req.method \in DOMAIN dispatcher
    /\ \/ ~SignatureOk(dispatcher[Req.method], Req.params)
       \/ dispatcher[Req.method] = "Server.echo" /\ Req.params = "num"

\* C8: handler error.  An exception raised by a handler does not leave the
\* loop: it becomes the error response of that request, nothing of the
\* server's state changes, and the loop goes on with the next frame.
C8_HandleStep ==
    (pc = "handle" /\ LoopStep) =>
        /\ pc' \in {"handle", "check_exit"}
        /\ error' = error /\ exit_code' = exit_code
        /\ HandlerRaises =>
              /\ Produced(Respond(Req, "error",
                     IF SignatureOk(dispatcher[Req.method], Req.params)
                     THEN "ServerError" ELSE "InvalidParams"))
              /\ UNCHANGED <<serverVars, output, calls>>
        /\ (\E i \in DOMAIN responses' \ DOMAIN responses :
                responses'[i].kind = "error") =>
              UNCHANGED <<serverVars, output, calls>>

C8_ErrorWritten ==
    (pc = "check_exit" /\ LoopStep /\ ~should_exit /\ responses # <<>>) =>
        /\ output' = Append(output,
              [src |-> "response",
               text |-> full_output(json(response), platform),
               frame |-> frameno])
        /\ response = IF Len(requests) > 1 THEN BatchResponse ELSE responses[1]
        /\ pc' = "read_headers"
        /\ UNCHANGED <<serverVars, error, exit_code>>

C8_CrashOnlyInDecoder ==
    (pc' = "crashed" /\ pc # "crashed") => pc \in {"read_headers", "read_content"}

NonNumeric(v) == \A i \in DOMAIN v : v[i] \notin {"0", "1", "2", "3", "4", "5", "6", "7", "8", "9"}

\* the frames of the input stream that are a framing error
NoLengthFrame ==
    S_ContentType \o S_CRLF2
        \o RequestText([method |-> "version", id |-> 1, params |-> "none"])

BadLengthFrame == S_BadLength \o S_CRLF2

NoSeparatorFrame == S_NoSeparator \o S_CRLF2

\* The framing errors of a header block: a line without ": " ends the loop
\* with IndexError in read_headers, a block without Content-Length with
\* KeyError and one whose Content-Length is no number with ValueError, both
\* on line 149; the end of the input at a frame boundary is an empty header
\* block.  No handler runs for the frame and nothing is written for it.
C9_HeaderStep ==
    (pc = "read_headers" /\ LoopStep) =>
        /\ input = NoSeparatorFrame => pc' = "crashed" /\ error' = "IndexError"
        /\ input = BadLengthFrame =>
              /\ pc' = "read_content"
              /\ S_ContentLength \in DOMAIN headers'
              /\ NonNumeric(headers'[S_ContentLength])
        /\ input = NoLengthFrame =>
              pc' = "read_content" /\ S_ContentLength \notin DOMAIN headers'
        /\ (input = <<>> /\ closed) =>
              pc' = "read_content" /\ headers' = EmptyDict
        /\ UNCHANGED <<serverVars, output, calls, frameno, response>>

C9_ContentStep ==
    (pc = "read_content" /\ LoopStep
        /\ \/ S_ContentLength \notin DOMAIN headers
           \/ NonNumeric(headers[S_ContentLength])) =>
        /\ pc' = "crashed"
        /\ error' = IF S_ContentLength \in DOMAIN headers
                    THEN "ValueError" ELSE "KeyError"
        /\ UNCHANGED <<serverVars, output, calls, frameno, response, input>>

\* once the loop has ended with an exception it does nothing more
C9_Dead ==
    pc = "crashed" =>
        /\ pc' = "crashed"
        /\ UNCHANGED <<serverVars, calls, frameno, response, input, exit_code,
                       error>>
        /\ LoopWrites(output') = LoopWrites(output)

C9_HeaderErrorsFatal == [][C9_HeaderStep /\ C9_ContentStep /\ C9_Dead]_vars

\* the input has ended before the body the header block announces
EndedInBody ==
    /\ pc = "read_content"
    /\ closed
    /\ S_ContentLength \in DOMAIN headers
    /\ ParseInt(headers[S_ContentLength]).ok
    /\ Len(input) < ParseInt(headers[S_ContentLength]).value

C9_EndedStep ==
    (EndedInBody /\ LoopStep) =>
        /\ pc' = "crashed"
        /\ UNCHANGED <<serverVars, output, calls, frameno, response>>

\* C9: framing error is fatal.  A header block without Content-Length, with a
\* Content-Length that is no number, with a line without ": ", or the end of
\* the input ends the loop with an exception: no handler is called for the
\* frame, nothing is written for it, and no later frame is read.
C9_FramingErrorFatal ==
    [][C9_HeaderStep /\ C9_ContentStep /\ C9_Dead /\ C9_EndedStep]_vars

\* what the loop does with a frame cut short by the end of the input: the
\* short body is dispatched, the parse error is written as its response, and
\* the loop reads on
EndedInBodyAnswered ==
    /\ closed
    /\ pc = "read_headers"
    /\ frameno = 2
    /\ Len(output) = 1
    /\ output[1] = [src |-> "response",
                    text |-> full_output(ResponseJson(Response(0, "error", "ParseError")),
                                         platform),
                    frame |-> 2]

\* C10: at most one response per frame.  A frame gets no more than one
\* response, written by the loop after the frame's dispatch; a notification
\* (a request without id) gets none.
C10_OnePerFrame ==
    \A i, j \in DOMAIN output :
        (output[i].src = "response" /\ output[j].src = "response"
            /\ output[i].frame = output[j].frame) => i = j

C10_ResponseStep ==
    /\ (pc = "handle" /\ LoopStep /\ requests[1].ok /\ Req.id = 0) =>
            responses' = responses
    /\ (pc = "check_exit" /\ LoopStep /\ responses = <<>>) =>
            response = None /\ output' = output
    /\ (\E i \in DOMAIN output' : output'[i].src = "response"
            /\ (i \notin DOMAIN output \/ output[i] # output'[i])) =>
            /\ pc = "check_exit" /\ pc' = "read_headers"
            /\ response # None
            /\ responses # <<>>
            /\ \A k \in DOMAIN responses :
                  \/ ~requests[1].ok
                  \/ \E n \in DOMAIN requests :
                        /\ requests[n].id # 0
                        /\ requests[n].id = responses[k].id
            /\ Len(output') = Len(output) + 1
            /\ output'[Len(output')] =
                  [src |-> "response", text |-> full_output(json(response), platform),
                   frame |-> frameno]

C10_AtMostOneResponse == []C10_OnePerFrame /\ [][C10_ResponseStep]_vars

\* frame 2 was the shutdown notification: it was dispatched, the loop is back
\* at the top, and nothing was written for it
C10_Witness ==
    /\ pc = "read_headers"
    /\ frameno = 2
    /\ is_shutdown
    /\ invoked["shutdown"] = 1
    /\ output = <<>>

\* C5: framing round trip.  For every body string s, handle_output(s) followed
\* by read_headers and read_content(int(headers['Content-Length'])) on the text
\* written gives back exactly s, leaves the input at the end of the frame, and
\* the length recovered is the number of bytes of s.
C5_RoundTrip ==
    pc = "decoded" =>
        /\ somestring = body
        /\ input = <<>>
        /\ ParseInt(headers[S_ContentLength]).value = ByteLen(body)

\* the part of C5 that the code keeps: the string comes back, the input is at
\* the end of the frame, and the length recovered counts characters
CodecRoundTripChars ==
    /\ pc # "crashed"
    /\ pc = "decoded" =>
        /\ somestring = body
        /\ input = <<>>
        /\ ParseInt(headers[S_ContentLength]).value = Len(body)

(***************************************************************************)
(* Output stream: frames written by the loop and by background workers.    *)
(***************************************************************************)
\* the text is one whole frame: a Content-Length header, the blank-line
\* terminator, and a body of the announced length, with nothing around them
IsFrame(text) ==
    \E n \in 0..Len(text) :
        text = full_output(SubSeq(text, Len(text) - n + 1, Len(text)), platform)

\* C11: frames never interleave.  Every step that writes to the output stream,
\* whether taken by the loop thread or by a background worker, appends one
\* write after everything already written, and a write made by handle_output
\* (a response or an event) is one whole frame: header and body contiguous, in
\* the order of the handle_output calls.
C11_WriteStep ==
    (output' # output /\ output' # <<>>) =>
        /\ Len(output') = Len(output) + 1
        /\ SubSeq(output', 1, Len(output)) = output
        /\ output'[Len(output')].src \in {"response", "event"}
              => IsFrame(output'[Len(output')].text)

C12_WaitJoinsAll ==
    pc = "wait_returned" =>
        /\ \A t \in wait_iter.at_call : worker[t] = "finished"
        /\ threads = wait_iter.at_call

\* wait has returned after joining two workers
C12_Witness ==
    /\ pc = "wait_returned"
    /\ Cardinality(wait_iter.at_call) = 2

(***************************************************************************)
(* Echo, the lifecycle flags and shutdown (Spec).                          *)
(***************************************************************************)
\* C13: echo.  A dispatch of echo with its argument arg, which needs the
\* binding initialize makes, appends exactly the characters of arg to the
\* output stream as one write, with no Content-Length header and no JSON-RPC
\* envelope, and leaves the flags, the thread set and the dispatch table as
\* they were.
C13_EchoStep ==
    (Calls("Server.echo") /\ Req.params = "arg" /\ LoopStep) =>
        /\ invoked["initialize"] > 0
        /\ output' = Append(output, [src |-> "echo", text |-> S_hi, frame |-> frameno])
        /\ ~StartsWith(output'[Len(output')].text, S_ContentLength)
        /\ UNCHANGED <<is_shutdown, should_exit, threads, dispatcher>>

C13_EchoRaw == [][C13_EchoStep]_vars

\* echo has written its argument and the loop is about to write the response
\* of the request
C13_Witness ==
    /\ pc = "check_exit"
    /\ output # <<>>
    /\ output[Len(output)] = [src |-> "echo", text |-> S_hi, frame |-> frameno]
    /\ response # None

\* C14: the lifecycle flags.  Both start false.  is_shutdown changes only in a
\* call of shutdown and should_exit only in a call of exit, each from false to
\* true; so no other step (initialize, wait, register_thread, echo, send_event,
\* version, capabilities, reading or writing a frame) changes either flag,
\* shutdown leaves should_exit alone and exit leaves is_shutdown alone.
C14_FlagStep ==
    /\ is_shutdown' # is_shutdown =>
          /\ Calls("Server.shutdown") /\ SignatureOk("Server.shutdown", Req.params)
          /\ ~is_shutdown /\ is_shutdown'
    /\ should_exit' # should_exit =>
          /\ Calls("Server.exit") /\ SignatureOk("Server.exit", Req.params)
          /\ ~should_exit /\ should_exit'
    /\ (Calls("Server.shutdown") /\ LoopStep) => should_exit' = should_exit
    /\ (Calls("Server.exit") /\ LoopStep) => is_shutdown' = is_shutdown

C14_FlagsMonotone == (~is_shutdown /\ ~should_exit) /\ [][C14_FlagStep]_vars

\* shutdown was called twice and exit once, and both flags are set
C14_Witness ==
    /\ is_shutdown
    /\ should_exit
    /\ invoked["shutdown"] = 2
    /\ invoked["exit"] = 1

\* the exceptions of the frame decoder that end the loop
FramingErrors == {"IndexError", "KeyError", "ValueError"}

\* the loop thread is inside wait, joining a worker that is still running
BlockedInWait ==
    /\ Calls("Server.wait")
    /\ SignatureOk("Server.wait", Req.params)
    /\ threads \cap alive # {}

\* C15: shutdown does not stop the loop.  The step that handles shutdown
\* produces the response of a request with an id and leaves the loop running
\* and the table as it was; from then on, as long as exit has not been
\* handled, the loop never exits, stops only on an exception of the frame
\* decoder, always has a next step while it is handling a frame (unless it is
\* joining a running worker inside wait), does not wait in read_headers when
\* there is input or the input has ended, writes the response it owes, and
\* still dispatches every bound method.
C15_ShutdownStep ==
    /\ (Calls("Server.shutdown") /\ SignatureOk("Server.shutdown", Req.params)
          /\ LoopStep) =>
          /\ Produced(Respond(Req, "result", "null"))
          /\ pc' \in {"handle", "check_exit"}
          /\ dispatcher' = dispatcher
    /\ (is_shutdown /\ ~should_exit /\ pc = "check_exit" /\ LoopStep) =>
          /\ pc' = "read_headers"
          /\ response # None =>
                output' = Append(output,
                   [src |-> "response", text |-> full_output(json(response), platform),
                    frame |-> frameno])
    /\ (is_shutdown /\ pc = "handle" /\ requests[1].ok /\ LoopStep
          /\ Req.method \in DOMAIN dispatcher /\ Req.id # 0) =>
          ~Produced(Respond(Req, "error", "MethodNotFound"))

C15_LoopAlive ==
    (is_shutdown /\ ~should_exit) =>
        /\ dispatcher = FullTable
        /\ pc # "exited"
        /\ pc = "crashed" => error \in FramingErrors
        /\ (pc \in {"handle", "check_exit"} /\ ~BlockedInWait) => ENABLED DispatchNext
        /\ (pc = "read_headers" /\ (input # <<>> \/ closed)) =>
              read_headers(input, closed).status # "block"

C15_ShutdownKeepsLoop == []C15_LoopAlive /\ [][C15_ShutdownStep]_vars

\* after shutdown (frame 2) an echo request (frame 3) was dispatched and
\* answered, and the loop is reading again
C15_Witness ==
    /\ is_shutdown /\ ~should_exit
    /\ calls = <<"initialize", "shutdown">>
    /\ pc = "read_headers"
    /\ frameno = 3
    /\ Len(output) = 2
    /\ output[1] = [src |-> "echo", text |-> S_hi, frame |-> 3]
    /\ output[2].src = "response" /\ output[2].frame = 3

\* C16: the thread set is empty at server creation, grows only through
\* register_thread, and is drained by wait: whenever wait has returned, the
\* thread set is empty.
C16_DrainedByWait ==
    /\ (pc = "call" /\ \A h \in Handles : worker[h] = "unstarted") => threads = {}
    /\ pc = "wait_returned" => threads = {}

\* the part of C16 that the code keeps: the set starts empty, never loses a
\* handle, and changes only by the one handle a register_thread call adds;
\* registering a handle that is in the set leaves the set as it was
ThreadSetGrowsByRegister ==
    /\ threads = {}
    /\ [][/\ threads \subseteq threads'
          /\ threads' # threads =>
                \E h \in Handles \ threads :
                    /\ threads' = threads \cup {h}
                    /\ worker[h] = "unstarted" /\ worker'[h] = "running"
          /\ \A h \in threads : (threads \cup {h}) = threads]_vars

\* wait has returned from joining two workers and their handles are still in
\* the set
C16_StillRegistered ==
    /\ pc = "wait_returned"
    /\ Cardinality(threads) = 2
    /\ \A h \in threads : worker[h] = "finished"

\* C17: additions to the thread set are serialized against wait's loop.  While
\* wait is going through the set, the set is the one the loop started with (a
\* register_thread call of a background thread does not take effect before
\* the loop is over), and wait never fails.
C17_SerializedAdds ==
    /\ pc \in {"wait_for", "wait_join"} => threads = wait_iter.at_call
    /\ pc # "wait_raised"

\* what the code keeps of C17: wait fails only when a handle was added while
\* it was going through the set, and then with RuntimeError at the next handle
\* it asks for; it never passes over a handle and returns
WaitFailsOnlyOnAdd ==
    /\ pc = "wait_raised" =>
          /\ error = "RuntimeError"
          /\ threads # wait_iter.at_call
          /\ wait_iter.at_call \subseteq threads
    /\ pc = "wait_returned" =>
          /\ wait_iter.left = {}
          /\ threads = wait_iter.at_call

\* wait was joining thread 1 when thread 1 registered thread 2; thread 1 has
\* ended, and wait has raised RuntimeError
C17_WaitRaised ==
    /\ pc = "wait_raised"
    /\ wait_iter.at_call = {1}
    /\ threads = {1, 2}
    /\ worker[1] = "finished"

(***************************************************************************)
(* The frame encoder and the header decoder.                               *)
(***************************************************************************)
\* the frame that announces n for the body b
FrameOf(n, b) == S_ContentLength \o S_Sep \o DecimalStr(n) \o newlines(platform) \o b

\* C18: every frame the encoder writes is 'Content-Length: n', the blank-line
\* terminator and the body, where n is the number of bytes of the body, for
\* every body string, those with characters of more than one byte included.
C18_ByteLength ==
    \A i \in DOMAIN output :
        output[i].src = "codec" => output[i].text = FrameOf(ByteLen(body), body)

\* what the encoder keeps of C18: the form of the frame, with n the number of
\* characters of the body
FrameCountsCharacters ==
    /\ pc # "encode" => Len(output) = 1
    /\ \A i \in DOMAIN output :
          output[i].src = "codec" => output[i].text = FrameOf(Len(body), body)

\* the frame written for a body of one character and two bytes announces 1
C18_OneForTwoBytes ==
    /\ body = <<"U+00E9">>
    /\ Len(output) = 1
    /\ output[1].text = FrameOf(1, body)
    /\ ByteLen(body) = 2

\* where the first ": " of a line starts, 0 when the line has none
FirstSep(l) ==
    LET at == {i \in 1..(Len(l) - 1) : SubSeq(l, i, i + 1) = S_Sep}
    IN  IF at = {} THEN 0 ELSE CHOOSE i \in at : \A j \in at : i <= j

\* C19: header decoding splits a non-empty header line on its first ": "
\* only.  For the line 'Name: value' the dict holds, under Name, everything
\* after the first ": ", any later ": " included; and the scan stops at the
\* first empty line, leaving what follows it unread.
C19_FirstSeparatorOnly ==
    pc = "decode_content" =>
        LET l == Strip(body)
            i == FirstSep(l)
        IN  IF l = <<>>
            THEN headers = EmptyDict /\ input = S_CRLF \o S_AfterBlank
            ELSE /\ i > 0
                 /\ headers = DictSet(EmptyDict, SubSeq(l, 1, i - 1),
                                      SubSeq(l, i + 2, Len(l)))
                 /\ input = S_AfterBlank

\* the value of a line as the decoder stores it: what lies between the first
\* ": " and the second one, or the end of the line
ValueToSecondSep(l) ==
    LET i == FirstSep(l)
        v == SubSeq(l, i + 2, Len(l))
        k == FirstSep(v)
    IN  IF k = 0 THEN v ELSE SubSeq(v, 1, k - 1)

\* what the decoder keeps of C19: the name is the text before the first ": ",
\* the value stops at the second ": ", a line without ": " ends the decoder
\* with IndexError, and the scan stops at the first empty line
HeaderValueToSecondSep ==
    LET l == Strip(body)
        i == FirstSep(l)
    IN  /\ pc = "decode_content" =>
            IF l = <<>>
            THEN headers = EmptyDict /\ input = S_CRLF \o S_AfterBlank
            ELSE /\ i > 0
                 /\ headers = DictSet(EmptyDict, SubSeq(l, 1, i - 1), ValueToSecondSep(l))
                 /\ input = S_AfterBlank
        /\ pc = "crashed" => l # <<>> /\ i = 0 /\ error = "IndexError"

\* the line 'a: a: a' was decoded and the dict holds 'a' under 'a'
C19_ValueCut ==
    /\ pc = "decode_content"
    /\ body = <<"a",":"," ","a",":"," ","a">>
    /\ headers = DictSet(EmptyDict, <<"a">>, <<"a">>)

(***************************************************************************)
(* Liveness of exit (LiveSpec).                                            *)
(***************************************************************************)
\* the loop has read a well-formed frame that holds an exit request it has not
\* handled yet, and exit is bound, which it is once initialize has run
ExitDelivered ==
    /\ pc = "handle"
    /\ requests[1].ok
    /\ "exit" \in DOMAIN dispatcher
    /\ \E n \in todo..Len(requests) :
          /\ requests[n].method = "exit"
          /\ SignatureOk("Server.exit", requests[n].params)

\* an exit request is being dispatched and initialize has never run
ExitBeforeInitialize ==
    /\ pc = "handle"
    /\ requests[1].ok
    /\ Req.method = "exit"
    /\ invoked["initialize"] = 0

\* C20: liveness of exit.  When handlers return and workers end, a frame with
\* an exit request that is read after initialize has run leads to the end of
\* the process through the exit check, and the loop reads no frame after the
\* one that carried exit.  An exit request dispatched before any initialize is
\* answered as an unknown method: should_exit stays false and the process
\* does not end.
C20_ExitStep ==
    /\ should_exit => frameno' = frameno
    /\ (pc # "exited" /\ pc' = "exited") => (pc = "check_exit" /\ should_exit)
    /\ (ExitBeforeInitialize /\ LoopStep) =>
          /\ Produced(Respond(Req, "error", "MethodNotFound"))
          /\ ~should_exit'
          /\ pc' \in {"handle", "check_exit"}

C20_ExitLiveness ==
    /\ ExitDelivered ~> (pc = "exited")
    /\ [][C20_ExitStep]_vars
    /\ [](invoked["initialize"] = 0 => (~should_exit /\ pc # "exited"))

\* initialize was called, then exit, without a shutdown: the process has ended
\* through the exit check with code 1, in the frame that carried exit
C20_Witness ==
    /\ pc = "exited"
    /\ frameno = 3
    /\ calls = <<"initialize", "exit">>
    /\ exit_code = <<1>>

====
